---- MODULE Spec2Model ----
(***************************************************************************)
(* A model of gcode_tool_extractor_gui.py: the noise classifier, the       *)
(* program-name extractor, the comment resolver, the tool locator, the     *)
(* formatter, and the batch loop of ToolExtractorApp.get_tool_list.        *)
(*                                                                         *)
(* A Python str is a sequence of one-character strings; a list of lines is *)
(* a sequence of such sequences.  Python's None is the empty tuple and a   *)
(* present value v is <<v>> (an optional).  Python indexes from 0, the     *)
(* sequences here from 1.  The alphabet is ASCII.                          *)
(***************************************************************************)
EXTENDS Integers, Sequences, FiniteSets

VARIABLES
    pc,              \* which function is running, and where it is
    text,            \* the str given to the function under analysis
    lines,           \* text.splitlines()
    idx,             \* extract_tools: the line the scan is at
    tools,           \* extract_tools: the dict being built
    hits,            \* extract_tools: the matches of the finditer just iterated
    start_idx,       \* _nearest_good_comment: argument
    search_back,     \* _nearest_good_comment: argument
    desc,            \* _nearest_good_comment: return value
    program_name,    \* extract_program_name: return value (optional)
    report,          \* format_tool_list: return value
    selected_files,  \* ToolExtractorApp.selected_files
    reads,           \* get_tool_list: what open/read gave for each path so far
    combined,        \* get_tool_list: the list of blocks
    output           \* the contents of the output box

vars == <<pc, text, lines, idx, tools, hits, start_idx, search_back, desc,
          program_name, report, selected_files, reads, combined, output>>

-----------------------------------------------------------------------------
(* Characters *)

DigitSeq == <<"0","1","2","3","4","5","6","7","8","9">>

UpperSeq == <<"A","B","C","D","E","F","G","H","I","J","K","L","M",
              "N","O","P","Q","R","S","T","U","V","W","X","Y","Z">>

LowerSeq == <<"a","b","c","d","e","f","g","h","i","j","k","l","m",
              "n","o","p","q","r","s","t","u","v","w","x","y","z">>

Range(s) == {s[i] : i \in DOMAIN s}

IndexOf(s, c) == CHOOSE i \in DOMAIN s : s[i] = c

DigitSet == Range(DigitSeq)

UpperSet == Range(UpperSeq)

WordSet == Range(DigitSeq) \cup Range(UpperSeq) \cup Range(LowerSeq) \cup {"_"}

\* \d
IsDigit(c) == c \in DigitSet

\* [A-Z], matched without re.I
IsUpper(c) == c \in UpperSet

\* \s and str.strip()
IsSpace(c) == c \in {" ", "\t"}

\* \w
IsWord(c) == c \in WordSet

\* case folding of re.I
ToLower(c) == IF IsUpper(c) THEN LowerSeq[IndexOf(UpperSeq, c)] ELSE c

\* int() of one digit
DigitVal(c) == IndexOf(DigitSeq, c) - 1

NoneVal == <<>>

Some(v) == <<v>>

Max(a, b) == IF a >= b THEN a ELSE b

-----------------------------------------------------------------------------
(* Regular-expression pieces *)

\* \s* from position i: the first position at or after i that holds no space
SkipSpaces(s, i) ==
    CHOOSE j \in i..(Len(s) + 1) :
        /\ \A k \in i..(j - 1) : IsSpace(s[k])
        /\ j = Len(s) + 1 \/ ~IsSpace(s[j])

\* the literal w (lower case), case-insensitively, at position i of s
MatchAt(s, i, w) ==
    /\ i >= 1
    /\ i + Len(w) - 1 <= Len(s)
    /\ \A k \in 1..Len(w) : ToLower(s[i + k - 1]) = w[k]

\* \b between positions p and p+1 of s
WordBoundary(s, p) ==
    LET W(q) == q \in 1..Len(s) /\ IsWord(s[q])
    IN  W(p) # W(p + 1)

\* str.strip()
Strip(s) ==
    LET a == SkipSpaces(s, 1)
    IN  IF a > Len(s) THEN <<>>
        ELSE LET b == CHOOSE j \in a..Len(s) :
                          /\ ~IsSpace(s[j])
                          /\ \A k \in (j + 1)..Len(s) : IsSpace(s[k])
             IN  SubSeq(s, a, b)

\* re.sub(r'^\s*[A-Z]\s*-\s*', '', s)
StripPrefix(s) ==
    LET a == SkipSpaces(s, 1)
    IN  IF a <= Len(s) /\ IsUpper(s[a])
        THEN LET b == SkipSpaces(s, a + 1)
             IN  IF b <= Len(s) /\ s[b] = "-"
                 THEN SubSeq(s, SkipSpaces(s, b + 1), Len(s))
                 ELSE s
        ELSE s

-----------------------------------------------------------------------------
(* is_noise_comment *)

W_created_by == <<"c","r","e","a","t","e","d"," ","b","y">>
W_date == <<"d","a","t","e">>
W_time == <<"t","i","m","e">>
W_operation == <<"o","p","e","r","a","t","i","o","n">>
W_timely == <<"t","i","m","e","l","y">>
W_send_to_home == <<"s","e","n","d"," ","t","o"," ","h","o","m","e">>
W_inch == <<"i","n","c","h">>
W_open_mind == <<"o","p","e","n"," ","m","i","n","d">>

\* ^\s*(w1|w2|...)\b
StartsWithWord(s, ws) ==
    LET i == SkipSpaces(s, 1)
    IN  \E w \in ws : MatchAt(s, i, w) /\ WordBoundary(s, i + Len(w) - 1)

\* pat.search(s) for some pat of IGNORE_COMMENT_PATTERNS
MatchesIgnorePattern(s) ==
    \/ StartsWithWord(s, {W_created_by, W_date, W_time})
    \/ StartsWithWord(s, {W_operation, W_timely})
    \/ \E i \in 1..Len(s) :
           /\ WordBoundary(s, i - 1)
           /\ MatchAt(s, i, W_send_to_home)
           /\ WordBoundary(s, i + Len(W_send_to_home) - 1)
    \/ LET i == SkipSpaces(s, 1)
       IN  MatchAt(s, i, W_inch) /\ SkipSpaces(s, i + Len(W_inch)) = Len(s) + 1
    \/ \E i \in 1..Len(s) : WordBoundary(s, i - 1) /\ MatchAt(s, i, W_open_mind)

MinCommentLen == 3

is_noise_comment(txt) ==
    LET s == StripPrefix(Strip(txt))
    IN  IF Len(s) < MinCommentLen THEN TRUE ELSE MatchesIgnorePattern(s)

-----------------------------------------------------------------------------
(* _comments_on_line and _nearest_good_comment *)

\* re.findall(r'\((.+?)\)', line), scanning from position pos
RECURSIVE FindAllComments(_, _)
FindAllComments(line, pos) ==
    LET Opens == {p \in pos..Len(line) :
                      /\ line[p] = "("
                      /\ \E q \in (p + 2)..Len(line) : line[q] = ")"}
    IN  IF Opens = {} THEN <<>>
        ELSE LET p == CHOOSE x \in Opens : \A y \in Opens : x <= y
                 q == CHOOSE x \in (p + 2)..Len(line) :
                          /\ line[x] = ")"
                          /\ \A y \in (p + 2)..(x - 1) : line[y] # ")"
             IN  <<SubSeq(line, p + 1, q - 1)>> \o FindAllComments(line, q + 1)

comments_on_line(line) == FindAllComments(line, 1)

\* cand = re.sub(r'^\s*[A-Z]\s*-\s*', '', c.strip())
Candidate(c) == StripPrefix(Strip(c))

\* for c in reversed(cms): ... return cand; k is the comment the loop is at
RECURSIVE FirstGoodFrom(_, _)
FirstGoodFrom(cms, k) ==
    IF k = 0 THEN NoneVal
    ELSE IF ~is_noise_comment(Candidate(cms[k])) THEN Some(Candidate(cms[k]))
    ELSE FirstGoodFrom(cms, k - 1)

\* a variant that tries the comments of a line leftmost first
RECURSIVE FirstGoodAscending(_, _)
FirstGoodAscending(cms, k) ==
    IF k > Len(cms) THEN NoneVal
    ELSE IF ~is_noise_comment(Candidate(cms[k])) THEN Some(Candidate(cms[k]))
    ELSE FirstGoodAscending(cms, k + 1)

FirstGood_leftmost(line) == FirstGoodAscending(comments_on_line(line), 1)

FirstGood(line) ==
    LET cms == comments_on_line(line) IN FirstGoodFrom(cms, Len(cms))

\* for j in range(start_idx - 1, stop, -1): the lines j, j-1, ..., stop+1
RECURSIVE LookBack(_, _, _)
LookBack(ls, j, stop) ==
    IF j <= stop THEN <<>>
    ELSE LET r == FirstGood(ls[j])
         IN  IF r # NoneVal THEN r[1] ELSE LookBack(ls, j - 1, stop)

\* range()'s stop, max(-1, start_idx - search_back - 1), one higher for indexing from 1
BackStop(i, back) == Max(0, i - back - 1)

nearest_good_comment(ls, i, back) ==
    LET same == FirstGood(ls[i])
    IN  IF same # NoneVal THEN same[1]
        ELSE LookBack(ls, i - 1, BackStop(i, back))

SearchBackDefault == 25

-----------------------------------------------------------------------------
(* str.splitlines *)

IsLineBreak(c) == c \in {"\n", "\r"}

RECURSIVE SplitFrom(_, _)
SplitFrom(s, pos) ==
    IF pos > Len(s) THEN <<>>
    ELSE LET b == CHOOSE j \in pos..(Len(s) + 1) :
                      /\ \A k \in pos..(j - 1) : ~IsLineBreak(s[k])
                      /\ j = Len(s) + 1 \/ IsLineBreak(s[j])
         IN  IF b > Len(s) THEN <<SubSeq(s, pos, Len(s))>>
             ELSE LET next == IF s[b] = "\r" /\ b + 1 <= Len(s) /\ s[b + 1] = "\n"
                              THEN b + 2 ELSE b + 1
                  IN  <<SubSeq(s, pos, b - 1)>> \o SplitFrom(s, next)

splitlines(s) == SplitFrom(s, 1)

-----------------------------------------------------------------------------
(* extract_tools *)

\* int() of a run of decimal digits
RECURSIVE IntOf(_)
IntOf(ds) ==
    IF ds = <<>> THEN 0
    ELSE 10 * IntOf(SubSeq(ds, 1, Len(ds) - 1)) + DigitVal(ds[Len(ds)])

AllDigits(line, a, b) == b <= Len(line) /\ \A k \in a..b : IsDigit(line[k])

LatheDigits == 4

LatheToolDigits == 2

\* T(\d{2})(\d{2}) matched at position p
LatheAt(line, p) == line[p] = "T" /\ AllDigits(line, p + 1, p + LatheDigits)

\* a variant that takes the tool number from the second group
LatheToolNumber_group2(line, p) == IntOf(SubSeq(line, p + LatheToolDigits + 1, p + LatheDigits))

\* int(m.group(1)) of the match at p
LatheToolNumber(line, p) == IntOf(SubSeq(line, p + 1, p + LatheToolDigits))

\* re.finditer(r'T(\d{2})(\d{2})', line) from position pos: the matches, each
\* with the position of its T, its last position and int(m.group(1))
RECURSIVE LatheFrom(_, _)
LatheFrom(line, pos) ==
    LET Starts == {p \in pos..Len(line) : LatheAt(line, p)}
    IN  IF Starts = {} THEN <<>>
        ELSE LET p == CHOOSE x \in Starts : \A y \in Starts : x <= y
             IN  <<[start |-> p, stop |-> p + LatheDigits,
                    tnum |-> LatheToolNumber(line, p)]>>
                 \o LatheFrom(line, p + LatheDigits + 1)

LatheMatches(line) == LatheFrom(line, 1)

\* a variant without the (?!\d) guard
MillTry_unguarded(line, p, n) == line[p] = "T" /\ AllDigits(line, p + 1, p + n)

\* T(\d{n})(?!\d) at position p, for one repetition count n of \d{1,2}
MillTry(line, p, n) ==
    /\ line[p] = "T"
    /\ AllDigits(line, p + 1, p + n)
    /\ ~(p + n + 1 <= Len(line) /\ IsDigit(line[p + n + 1]))

MillMaxDigits == 2

\* the repetition count T(\d{1,2})(?!\d) matches with at p, greedy first; 0: no match
RECURSIVE MillLenFrom(_, _, _)
MillLenFrom(line, p, n) ==
    IF n = 0 THEN 0
    ELSE IF MillTry(line, p, n) THEN n
    ELSE MillLenFrom(line, p, n - 1)

MillLen(line, p) == MillLenFrom(line, p, MillMaxDigits)

\* re.finditer(r'T(\d{1,2})(?!\d)', line) from position pos
RECURSIVE MillFrom(_, _)
MillFrom(line, pos) ==
    LET Starts == {p \in pos..Len(line) : MillLen(line, p) > 0}
    IN  IF Starts = {} THEN <<>>
        ELSE LET p == CHOOSE x \in Starts : \A y \in Starts : x <= y
                 n == MillLen(line, p)
             IN  <<[start |-> p, stop |-> p + n,
                    tnum |-> IntOf(SubSeq(line, p + 1, p + n))]>>
                 \o MillFrom(line, p + n + 1)

MillMatches(line) == MillFrom(line, 1)

EmptyTools == [k \in {} |-> <<>>]

\* a variant that assigns: tools[tnum] = d
SetDefault_assign(t, tnum, d) ==
    [k \in DOMAIN t \cup {tnum} |-> IF k = tnum THEN d ELSE t[k]]

\* tools.setdefault(tnum, d)
SetDefault(t, tnum, d) ==
    IF tnum \in DOMAIN t THEN t
    ELSE [k \in DOMAIN t \cup {tnum} |-> IF k = tnum THEN d ELSE t[k]]

\* for m in ms: tools.setdefault(int(m.group(1)), d), from match k on
RECURSIVE InsertFrom(_, _, _, _)
InsertFrom(t, ms, k, d) ==
    IF k > Len(ms) THEN t
    ELSE InsertFrom(SetDefault(t, ms[k].tnum, d), ms, k + 1, d)

\* the first inner loop of extract_tools at line i
ScanLathe(ls, i, t) ==
    InsertFrom(t, LatheMatches(ls[i]), 1, nearest_good_comment(ls, i, SearchBackDefault))

\* the second inner loop of extract_tools at line i
ScanMill(ls, i, t) ==
    InsertFrom(t, MillMatches(ls[i]), 1, nearest_good_comment(ls, i, SearchBackDefault))

RECURSIVE ScanFrom(_, _, _)
ScanFrom(ls, i, t) ==
    IF i > Len(ls) THEN t
    ELSE ScanFrom(ls, i + 1, ScanMill(ls, i, ScanLathe(ls, i, t)))

extract_tools(txt) == ScanFrom(splitlines(txt), 1, EmptyTools)

-----------------------------------------------------------------------------
(* extract_program_name *)

\* \((.+?)\)\s*$ with the ( at position b: the group, if it matches
ParenTail(line, b) ==
    LET Closes == {c \in (b + 2)..Len(line) :
                       line[c] = ")" /\ SkipSpaces(line, c + 1) = Len(line) + 1}
    IN  IF b <= Len(line) /\ line[b] = "(" /\ Closes # {}
        THEN LET c == CHOOSE x \in Closes : \A y \in Closes : x <= y
             IN  Some(SubSeq(line, b + 1, c - 1))
        ELSE NoneVal

\* re.search(r'^\s*O\d+\s*\((.+?)\)\s*$', line): the group, if it matches
OHeaderGroup(line) ==
    LET a == SkipSpaces(line, 1)
    IN  IF a <= Len(line) /\ line[a] = "O"
        THEN LET d == CHOOSE j \in (a + 1)..(Len(line) + 1) :
                          /\ \A k \in (a + 1)..(j - 1) : IsDigit(line[k])
                          /\ j = Len(line) + 1 \/ ~IsDigit(line[j])
             IN  IF d > a + 1 THEN ParenTail(line, SkipSpaces(line, d)) ELSE NoneVal
        ELSE NoneVal

\* re.search(r'^\s*\((.+?)\)\s*$', line): the group, if it matches
StandaloneGroup(line) == ParenTail(line, SkipSpaces(line, 1))

HasPercent(line) == "%" \in Range(line)

\* the first loop of extract_program_name, from line i
RECURSIVE FirstOHeader(_, _)
FirstOHeader(ls, i) ==
    IF i > Len(ls) THEN NoneVal
    ELSE IF OHeaderGroup(ls[i]) # NoneVal THEN Some(Strip(OHeaderGroup(ls[i])[1]))
    ELSE FirstOHeader(ls, i + 1)

\* the second loop of extract_program_name, from line i
RECURSIVE AfterPercent(_, _, _)
AfterPercent(ls, i, seen_percent) ==
    IF i > Len(ls) THEN NoneVal
    ELSE IF HasPercent(ls[i]) THEN AfterPercent(ls, i + 1, TRUE)
    ELSE IF seen_percent /\ StandaloneGroup(ls[i]) # NoneVal
         THEN Some(Strip(StandaloneGroup(ls[i])[1]))
    ELSE AfterPercent(ls, i + 1, seen_percent)

\* a variant that consults the standalone-comment strategy first
extract_program_name_percent_first(txt) ==
    LET ls == splitlines(txt)
        second == AfterPercent(ls, 1, FALSE)
    IN  IF second # NoneVal THEN second ELSE FirstOHeader(ls, 1)

extract_program_name(txt) ==
    LET ls == splitlines(txt)
        first == FirstOHeader(ls, 1)
    IN  IF first # NoneVal THEN first ELSE AfterPercent(ls, 1, FALSE)

-----------------------------------------------------------------------------
(* format_tool_list *)

S_unknown == <<"U","N","K","N","O","W","N"," ","P","R","O","G","R","A","M">>
S_tool_list_for == <<"T","o","o","l"," ","L","i","s","t"," ","f","o","r"," ","("," ">>
S_header_end == <<" ",")",".">>
S_no_tools == <<"(","N","o"," ","t","o","o","l","s"," ","f","o","u","n","d",")">>
S_dash == <<" ","-"," ">>

\* str(n) for n >= 0
RECURSIVE DecimalOf(_)
DecimalOf(n) ==
    IF n < 10 THEN <<DigitSeq[n + 1]>>
    ELSE DecimalOf(n \div 10) \o <<DigitSeq[(n % 10) + 1]>>

PadWidth == 2

\* f"{t:02d}" for t >= 0
RECURSIVE ZeroPad(_)
ZeroPad(ds) == IF Len(ds) >= PadWidth THEN ds ELSE ZeroPad(<<"0">> \o ds)

Format02d(t) == ZeroPad(DecimalOf(t))

\* a variant that sorts in descending order
RECURSIVE Sorted_descending(_)
Sorted_descending(S) ==
    IF S = {} THEN <<>>
    ELSE LET m == CHOOSE x \in S : \A y \in S : x >= y
         IN  <<m>> \o Sorted_descending(S \ {m})

\* sorted(keys)
RECURSIVE Sorted(_)
Sorted(S) ==
    IF S = {} THEN <<>>
    ELSE LET m == CHOOSE x \in S : \A y \in S : x <= y
         IN  <<m>> \o Sorted(S \ {m})

\* sep.join(ls)
RECURSIVE Join(_, _)
Join(ls, sep) ==
    IF ls = <<>> THEN <<>>
    ELSE IF Len(ls) = 1 THEN ls[1]
    ELSE ls[1] \o sep \o Join(Tail(ls), sep)

\* program_name or "UNKNOWN PROGRAM"
HeaderName(name) == IF name = NoneVal \/ name[1] = <<>> THEN S_unknown ELSE name[1]

\* one iteration of the loop over sorted(tools.keys())
ToolLine(t, k) ==
    LET d == Strip(t[k])
    IN  IF d # <<>> THEN <<"T">> \o Format02d(k) \o S_dash \o d
        ELSE <<"T">> \o Format02d(k)

RECURSIVE ToolLines(_, _, _)
ToolLines(t, ks, i) ==
    IF i > Len(ks) THEN <<>> ELSE <<ToolLine(t, ks[i])>> \o ToolLines(t, ks, i + 1)

format_tool_list(name, t) ==
    LET head == <<S_tool_list_for \o HeaderName(name) \o S_header_end, <<>>>>
    IN  IF DOMAIN t = {} THEN Join(head \o <<S_no_tools>>, <<"\n">>)
        ELSE Join(head \o ToolLines(t, Sorted(DOMAIN t), 1), <<"\n">>)

-----------------------------------------------------------------------------
(* Values of the variables a specification does not use *)

IdleTools == /\ text = <<>> /\ lines = <<>> /\ idx = 0 /\ tools = EmptyTools /\ hits = <<>>

IdleComment == start_idx = 0 /\ search_back = 0 /\ desc = <<>>

IdleName == program_name = NoneVal

IdleFormat == report = <<>>

IdleBatch == selected_files = <<>> /\ reads = <<>> /\ combined = <<>> /\ output = <<>>

\* all sequences over S of length 0..n
SeqsUpTo(S, n) == UNION {[1..k -> S] : k \in 0..n}

-----------------------------------------------------------------------------
(* _nearest_good_comment applied to bounded inputs *)

MaxCommentLines == 3

MaxBack == 2

L_abc == <<"(","A","B","C",")">>
L_noise == <<"(","I","N","C","H",")","(","X","Y",")">>
L_two == <<"(","D","E","F",")","(","G","H","I",")">>
L_mixed == <<"(","D"," ","-"," ","J","K","L",")","(","D","a","t","e",")">>
L_pref == <<"T","2"," ","(","A","-","M","N","O",")"," ","X">>

CommentLinePool == {<<>>, L_abc, L_noise, L_two, L_mixed, L_pref}

InitComment ==
    /\ pc = "resolve"
    /\ lines \in SeqsUpTo(CommentLinePool, MaxCommentLines) \ {<<>>}
    /\ start_idx \in 1..Len(lines)
    /\ search_back \in 0..MaxBack
    /\ desc = <<>>
    /\ text = <<>> /\ idx = 0 /\ tools = EmptyTools /\ hits = <<>>
    /\ IdleName /\ IdleFormat /\ IdleBatch

Resolve ==
    /\ pc = "resolve"
    /\ desc' = nearest_good_comment(lines, start_idx, search_back)
    /\ pc' = "resolved"
    /\ UNCHANGED <<text, lines, idx, tools, hits, start_idx, search_back,
                   program_name, report, selected_files, reads, combined, output>>

NextComment == Resolve

SpecComment == InitComment /\ [][NextComment]_vars

(* The candidates of a call, as positions: comment k of line j *)

CandAt(j, k) == Candidate(comments_on_line(lines[j])[k])

\* the lines the call may take a comment from: start_idx and the search_back before it
Window == {j \in 1..Len(lines) : j <= start_idx /\ start_idx - j <= search_back}

Positions == UNION {{<<j, k>> : k \in 1..Len(comments_on_line(lines[j]))} : j \in Window}

GoodPositions == {q \in Positions : ~is_noise_comment(CandAt(q[1], q[2]))}

\* q is tried before r: a nearer line, or the same line and further right
TriedBefore(q, r) == q[1] > r[1] \/ (q[1] = r[1] /\ q[2] > r[2])

\* C2: nearest_comment returns the first non-noise candidate, prefix stripped, in
\* the order: the comments of lines[index] rightmost first, then those of each
\* earlier line down to index - backwindow, nearest line first and rightmost first
\* within a line; it returns the empty string when the window holds no such
\* candidate, and so never text that only a line outside the window offers.
C2_NearestInSearchOrder ==
    pc = "resolved" =>
        IF GoodPositions = {} THEN desc = <<>>
        ELSE \E q \in GoodPositions :
                 /\ \A r \in GoodPositions : r # q => TriedBefore(q, r)
                 /\ desc = CandAt(q[1], q[2])

\* the same line offers only noise, the answer comes from an earlier line that
\* holds two good comments, and a good comment lies beyond the window
C2_Witness ==
    /\ pc = "resolved"
    /\ desc # <<>>
    /\ comments_on_line(lines[start_idx]) # <<>>
    /\ \A q \in GoodPositions : q[1] < start_idx
    /\ \E q \in GoodPositions :
           /\ q[1] < start_idx
           /\ desc = CandAt(q[1], q[2])
           /\ \E r \in GoodPositions : r[1] = q[1] /\ r[2] < q[2]
    /\ \E j \in 1..Len(lines) : j \notin Window /\ FirstGood(lines[j]) # NoneVal

-----------------------------------------------------------------------------
(* extract_tools, one step per inner loop, on bounded texts *)

MaxRun == 5

MaxToolLines == 3

DigitAlphabet == {"0", "1", "4"}

\* the digit runs that follow the first T of a one-line text
Runs == SeqsUpTo(DigitAlphabet, MaxRun)

T_mill == <<"T","4">>
T_rough == <<" ","(","R","O","U","G","H"," ","T","U","R","N",")">>

\* one line: T, a digit run, perhaps a second token, perhaps a comment
TokenTexts == {<<"T">> \o r \o t \o c : r \in Runs, t \in {<<>>, T_mill}, c \in {<<>>, T_rough}}

X_t123 == <<"T","1","2","3">>
X_t0 == <<"T","0"," ","M","0","6">>

L_face == <<"(","F","A","C","E"," ","M","I","L","L",")">>
L_t05 == <<"T","0","5">>
L_t05_drill == <<"T","0","5"," ","(","D","R","I","L","L",")">>
L_t05_inch == <<"T","5"," ","M","0","6"," ","(","I","N","C","H",")">>
L_t0505 == <<"T","0","5","0","5"," ","(","R","O","U","G","H"," ","T","U","R","N",")">>
L_t1_face == <<"T","1"," ","(","F","A","C","E"," ","M","I","L","L",")">>

ToolLinePool == {L_face, L_t05, L_t05_drill, L_t05_inch, L_t0505, L_t1_face}

\* several lines, with comments on and before the lines that call a tool
ScanTexts == {Join(ls, <<"\n">>) : ls \in SeqsUpTo(ToolLinePool, MaxToolLines)}

InitTools ==
    /\ pc = "start"
    /\ text \in TokenTexts \cup ScanTexts \cup {X_t123, X_t0}
    /\ lines = <<>> /\ idx = 0 /\ tools = EmptyTools /\ hits = <<>>
    /\ IdleComment /\ IdleName /\ IdleFormat /\ IdleBatch

OtherThanTools == <<start_idx, search_back, desc, program_name, report,
                    selected_files, reads, combined, output>>

\* lines = text.splitlines(); tools = {}
Begin ==
    /\ pc = "start"
    /\ lines' = splitlines(text)
    /\ tools' = EmptyTools
    /\ idx' = 1
    /\ pc' = "lathe"
    /\ UNCHANGED <<text, hits>>
    /\ UNCHANGED OtherThanTools

\* for m in re.finditer(r'T(\d{2})(\d{2})', line): ...
LatheStep ==
    /\ pc = "lathe"
    /\ idx <= Len(lines)
    /\ hits' = LatheMatches(lines[idx])
    /\ tools' = ScanLathe(lines, idx, tools)
    /\ pc' = "mill"
    /\ UNCHANGED <<text, lines, idx>>
    /\ UNCHANGED OtherThanTools

\* for m in re.finditer(r'T(\d{1,2})(?!\d)', line): ...
MillStep ==
    /\ pc = "mill"
    /\ hits' = MillMatches(lines[idx])
    /\ tools' = ScanMill(lines, idx, tools)
    /\ pc' = "advance"
    /\ UNCHANGED <<text, lines, idx>>
    /\ UNCHANGED OtherThanTools

\* the next iteration of for idx, line in enumerate(lines)
NextLine ==
    /\ pc = "advance"
    /\ idx' = idx + 1
    /\ pc' = "lathe"
    /\ UNCHANGED <<text, lines, tools, hits>>
    /\ UNCHANGED OtherThanTools

\* return tools
Return ==
    /\ pc = "lathe"
    /\ idx > Len(lines)
    /\ pc' = "done"
    /\ UNCHANGED <<text, lines, idx, tools, hits>>
    /\ UNCHANGED OtherThanTools

NextTools == Begin \/ LatheStep \/ MillStep \/ NextLine \/ Return

SpecTools == InitTools /\ [][NextTools]_vars

(* Tool calls, read off the text directly *)

\* the length of the maximal run of digits right after position p
RunLen(line, p) ==
    Cardinality({n \in 1..(Len(line) - p) : \A k \in 1..n : IsDigit(line[p + k])})

TPositions(line) == {p \in 1..Len(line) : line[p] = "T"}

\* the T's that call a tool: four digits or more (lathe), one or two (mill)
CallPositions(line) == {p \in TPositions(line) : RunLen(line, p) \in {1, 2} \/ RunLen(line, p) >= 4}

CallNumber(line, p) ==
    IF RunLen(line, p) >= 4
    THEN 10 * DigitVal(line[p + 1]) + DigitVal(line[p + 2])
    ELSE IF RunLen(line, p) = 2
    THEN 10 * DigitVal(line[p + 1]) + DigitVal(line[p + 2])
    ELSE DigitVal(line[p + 1])

Invokes(line) == {CallNumber(line, p) : p \in CallPositions(line)}

InvokingLines(n) == {i \in 1..Len(lines) : n \in Invokes(lines[i])}

FirstLine(n) == CHOOSE i \in InvokingLines(n) : \A j \in InvokingLines(n) : i <= j

Scanning == pc \in {"lathe", "mill", "advance", "done"}

\* C1: first occurrence wins.  At every point of the scan each key of the map is
\* a tool number the text invokes and carries the description nearest_comment
\* resolves at the first line that invokes it (so a description, once set, never
\* changes, whatever a later invocation offers and also when it is empty); and
\* the returned map has every tool number invoked anywhere in the text.
C1_FirstOccurrenceWins ==
    Scanning =>
        /\ \A n \in DOMAIN tools :
               /\ InvokingLines(n) # {}
               /\ tools[n] = nearest_good_comment(lines, FirstLine(n), SearchBackDefault)
        /\ pc = "done" =>
               \A i \in 1..Len(lines) : \A n \in Invokes(lines[i]) : n \in DOMAIN tools

\* a tool invoked on two lines, the first resolving to the empty string and the
\* later one to a comment: the map keeps the empty string
C1_Witness ==
    /\ pc = "done"
    /\ \E n \in DOMAIN tools : \E i, j \in InvokingLines(n) :
           /\ i = FirstLine(n)
           /\ i < j
           /\ nearest_good_comment(lines, i, SearchBackDefault) = <<>>
           /\ nearest_good_comment(lines, j, SearchBackDefault) # <<>>
           /\ tools[n] = <<>>

\* C3: the mill matcher records a number from a T only when the maximal digit run
\* after that T has one or two digits, and the number is that run's value; a text
\* whose only T is followed by exactly three digits yields an empty map.
C3_MillGuard ==
    /\ pc = "advance" =>
           \A k \in 1..Len(hits) :
               LET p == hits[k].start
                   n == RunLen(lines[idx], p)
               IN  /\ lines[idx][p] = "T"
                   /\ n \in {1, 2}
                   /\ hits[k].tnum = IntOf(SubSeq(lines[idx], p + 1, p + n))
    /\ pc = "done" =>
           \A i \in 1..Len(lines) :
               (Len(lines) = 1 /\ \E p \in 1..Len(lines[i]) :
                    TPositions(lines[i]) = {p} /\ RunLen(lines[i], p) = 3)
               => tools = EmptyTools

\* a line with a three-digit token and a one-digit token: the mill matcher has
\* run on it and matched only the second
C3_Witness ==
    /\ pc = "advance"
    /\ Len(hits) = 1
    /\ \E p \in TPositions(lines[idx]) : RunLen(lines[idx], p) = 3 /\ p < hits[1].start

\* the T's followed by exactly four digits
FourDigitTokens(line) == {p \in TPositions(line) : RunLen(line, p) = 4}

\* C4: a T followed by exactly four digits d1 d2 d3 d4 is matched once by the
\* lathe matcher, as tool 10*d1+d2, and not at all by the mill matcher; the map
\* returned has that number, and when the token is the only T of a one-line text
\* the map has no other key; 'T0404 (ROUGH TURN)' yields {4: 'ROUGH TURN'}.
C4_LatheToken ==
    /\ pc = "mill" =>
           \A p \in FourDigitTokens(lines[idx]) :
               /\ Cardinality({k \in 1..Len(hits) : hits[k].start = p}) = 1
               /\ \A k \in 1..Len(hits) :
                      hits[k].start = p =>
                          hits[k].tnum = 10 * DigitVal(lines[idx][p + 1])
                                         + DigitVal(lines[idx][p + 2])
    /\ pc = "advance" =>
           \A p \in FourDigitTokens(lines[idx]) : \A k \in 1..Len(hits) :
               hits[k].start < p \/ hits[k].start > p + 4
    /\ pc = "done" =>
           \A i \in 1..Len(lines) : \A p \in FourDigitTokens(lines[i]) :
               LET n == 10 * DigitVal(lines[i][p + 1]) + DigitVal(lines[i][p + 2])
               IN  /\ n \in DOMAIN tools
                   /\ (Len(lines) = 1 /\ TPositions(lines[i]) = {p}) => DOMAIN tools = {n}
    /\ (pc = "done" /\ text = <<"T","0","4","0","4">> \o T_rough) =>
           /\ DOMAIN tools = {4}
           /\ tools[4] = <<"R","O","U","G","H"," ","T","U","R","N">>

\* extract_tools has returned on 'T0404 (ROUGH TURN)'
C4_Witness ==
    /\ pc = "done"
    /\ text = <<"T","0","4","0","4">> \o T_rough
    /\ DOMAIN tools = {4}

\* C5: every key of the returned map is an integer of 1..99 and every value a
\* string.
C5_KeysInRange ==
    pc = "done" =>
        \A n \in DOMAIN tools :
            /\ n \in 1..99
            /\ tools[n] \in Seq(Range(tools[n]))

-----------------------------------------------------------------------------
(* extract_program_name applied to bounded texts *)

MaxNameLines == 3

N_percent == <<"%">>
N_widget == <<"(","W","I","D","G","E","T"," ","B","R","A","C","K","E","T",")">>
N_header == <<"O","1","2","3","4"," ","(","P","A","R","T"," ","N","U","M","B","E","R"," ","9","9",")">>
N_percent_comment == <<"(","5","0","%"," ","F","E","E","D",")">>
N_code == <<"G","0"," ","X","1"," ","(","R","A","P","I","D",")">>
N_blank_header == <<"O","1"," ","("," ",")">>
N_spaced == <<" "," ","("," ","B"," ",")"," "," ">>

NameLinePool == {<<>>, N_percent, N_widget, N_header, N_percent_comment, N_code,
                 N_blank_header, N_spaced}

NameTexts == {Join(ls, <<"\n">>) : ls \in SeqsUpTo(NameLinePool, MaxNameLines)}

InitName ==
    /\ pc = "name"
    /\ text \in NameTexts
    /\ program_name = NoneVal
    /\ lines = <<>> /\ idx = 0 /\ tools = EmptyTools /\ hits = <<>>
    /\ IdleComment /\ IdleFormat /\ IdleBatch

ExtractName ==
    /\ pc = "name"
    /\ program_name' = extract_program_name(text)
    /\ pc' = "named"
    /\ UNCHANGED <<text, lines, idx, tools, hits, start_idx, search_back, desc,
                   report, selected_files, reads, combined, output>>

NextName == ExtractName

SpecName == InitName /\ [][NextName]_vars

NameLines == splitlines(text)

\* the lines of the O-number header form
HeaderLines == {i \in 1..Len(NameLines) : OHeaderGroup(NameLines[i]) # NoneVal}

PercentLines == {i \in 1..Len(NameLines) : HasPercent(NameLines[i])}

\* the lines that are entirely a parenthesized group and lie after a % line
StandaloneAfterPercent ==
    {i \in 1..Len(NameLines) :
        /\ StandaloneGroup(NameLines[i]) # NoneVal
        /\ \E p \in PercentLines : p < i}

Least(S) == CHOOSE i \in S : \A j \in S : i <= j

\* C6: with no O-number header line, the result is the content of the first line
\* after the first % line that is entirely a parenthesized group, and absent when
\* there is no such line.
C6_FirstStandaloneAfterPercent ==
    (pc = "named" /\ HeaderLines = {}) =>
        IF StandaloneAfterPercent = {} THEN program_name = NoneVal
        ELSE program_name =
                 Some(Strip(StandaloneGroup(NameLines[Least(StandaloneAfterPercent)])[1]))

\* C7: if any line is an O-number header with a trailing parenthesized group, the
\* result is the trimmed content of the group of the first such line, whatever %
\* or standalone parenthesized lines come before it.
C7_HeaderFirst ==
    (pc = "named" /\ HeaderLines # {}) =>
        program_name = Some(Strip(OHeaderGroup(NameLines[Least(HeaderLines)])[1]))

\* the header is the third line, after a % line and a standalone comment line
C7_Witness ==
    /\ pc = "named"
    /\ HeaderLines # {}
    /\ \E p \in PercentLines : \E i \in StandaloneAfterPercent :
           p < i /\ i < Least(HeaderLines)
    /\ program_name = Some(<<"P","A","R","T"," ","N","U","M","B","E","R"," ","9","9">>)

-----------------------------------------------------------------------------
(* format_tool_list applied to the names and maps the extractors can return *)

D_demo == <<"D","E","M","O">>
D_face_mill == <<"F","A","C","E"," ","M","I","L","L">>
D_abc == <<"A","B","C">>

\* None, the empty name of a header such as 'O1 ( )', and a name
NamePool == {NoneVal, Some(<<>>), Some(D_demo)}

KeyPool == {0, 1, 4, 12, 99}

\* descriptions are empty or stripped text of three characters or more
DescPool == {<<>>, D_face_mill, D_abc}

ToolMaps == UNION {[K -> DescPool] : K \in SUBSET KeyPool}

InitFormat ==
    /\ pc = "format"
    /\ program_name \in NamePool
    /\ tools \in ToolMaps
    /\ report = <<>>
    /\ text = <<>> /\ lines = <<>> /\ idx = 0 /\ hits = <<>>
    /\ IdleComment /\ IdleBatch

Format ==
    /\ pc = "format"
    /\ report' = format_tool_list(program_name, tools)
    /\ pc' = "formatted"
    /\ UNCHANGED <<text, lines, idx, tools, hits, start_idx, search_back, desc,
                   program_name, selected_files, reads, combined, output>>

NextFormat == Format

SpecFormat == InitFormat /\ [][NextFormat]_vars

\* NN of a tool number below 100
TwoDigits(k) == <<DigitSeq[(k \div 10) + 1], DigitSeq[(k % 10) + 1]>>

ExpectedLine(k) ==
    IF tools[k] # <<>> THEN <<"T">> \o TwoDigits(k) \o <<" ", "-", " ">> \o tools[k]
    ELSE <<"T">> \o TwoDigits(k)

\* the key with i keys of the map at or below it
KeyOfRank(i) == CHOOSE k \in DOMAIN tools : Cardinality({x \in DOMAIN tools : x <= k}) = i

ExpectedBody ==
    IF DOMAIN tools = {} THEN <<S_no_tools>>
    ELSE [i \in 1..Cardinality(DOMAIN tools) |-> ExpectedLine(KeyOfRank(i))]

ExpectedReport(header_name) ==
    Join(<<S_tool_list_for \o header_name \o S_header_end, <<>>>> \o ExpectedBody, <<"\n">>)

\* C8, as claimed: the header names the program, with UNKNOWN PROGRAM when the
\* name is absent; then a blank line; then one line per key in ascending order,
\* 'T<NN> - <description>' or 'T<NN>' alone, or '(No tools found)' exactly when
\* the map is empty.
C8_ReportAsClaimed ==
    pc = "formatted" =>
        report = ExpectedReport(IF program_name = NoneVal THEN S_unknown
                                ELSE program_name[1])

\* C8, amended: the same, with UNKNOWN PROGRAM when the name is absent or is the
\* empty string.
C8_Report ==
    pc = "formatted" =>
        report = ExpectedReport(IF program_name = NoneVal \/ program_name = Some(<<>>)
                                THEN S_unknown ELSE program_name[1])

\* the map {1: 'FACE MILL', 4: ''} formatted under an empty name
C8_Witness ==
    /\ pc = "formatted"
    /\ program_name = Some(<<>>)
    /\ tools = [k \in {1, 4} |-> IF k = 1 THEN D_face_mill ELSE <<>>]
    /\ report = <<"T","o","o","l"," ","L","i","s","t"," ","f","o","r"," ","("," ","U","N","K","N","O","W","N"," ","P","R","O","G","R","A","M"," ",")",".","\n","\n","T","0","1"," ","-"," ","F","A","C","E"," ","M","I","L","L","\n","T","0","4">>

-----------------------------------------------------------------------------
(* ToolExtractorApp: select_files and get_tool_list *)

MaxFiles == 2

P_plain == <<"a",".","n","c">>
P_nested == <<"d","/","b",".","n","c">>

PathPool == {P_plain, P_nested}

F_mill == <<"T","1"," ","(","F","A","C","E"," ","M","I","L","L",")">>
F_lathe == <<"O","1"," ","(","P",")","\n","T","0","4","0","4"," ","(","R","O","U","G","H"," ","T","U","R","N",")">>

\* what f.read() gives for a path, when it gives anything
FileText(path) == IF path = P_plain THEN F_mill ELSE F_lathe

E_denied == <<"d","e","n","i","e","d">>

\* str(e) of the exception open() or read() may raise
ErrorPool == {E_denied}

S_error == <<"E","r","r","o","r"," ","r","e","a","d","i","n","g"," ","f","i","l","e",":"," ">>

\* os.path.basename(path)
basename(path) ==
    LET Seps == {i \in 1..Len(path) : path[i] = "/"}
    IN  IF Seps = {} THEN path
        ELSE SubSeq(path, (CHOOSE i \in Seps : \A j \in Seps : i >= j) + 1, Len(path))

\* f"[{os.path.basename(path)}]\n"
FileHeader(path) == <<"[">> \o basename(path) \o <<"]", "\n">>

\* f"[{os.path.basename(path)}]\nError reading file: {e}\n"
ErrorBlock(path, e) == FileHeader(path) \o S_error \o e \o <<"\n">>

\* a variant that puts the file header on the block of a single file too
ReportBlock_always(path, block, n) == FileHeader(path) \o block \o <<"\n">>

\* the block appended for a file that was read, n files being selected
ReportBlock(path, block, n) ==
    IF n > 1 THEN FileHeader(path) \o block \o <<"\n">> ELSE block

InitBatch ==
    /\ pc = "idle"
    /\ IdleBatch
    /\ IdleTools /\ IdleComment /\ IdleName /\ IdleFormat

OtherThanBatch == <<text, lines, idx, tools, hits, start_idx, search_back, desc,
                    program_name, report>>

\* select_files: the dialog returns files; an empty answer changes nothing
SelectFiles ==
    /\ pc = "idle"
    /\ \E files \in SeqsUpTo(PathPool, MaxFiles) :
           selected_files' = IF files = <<>> THEN selected_files ELSE files
    /\ UNCHANGED <<pc, reads, combined, output>>
    /\ UNCHANGED OtherThanBatch

\* get_tool_list with nothing selected: a message box, and return
GetToolListEmpty ==
    /\ pc = "idle"
    /\ selected_files = <<>>
    /\ UNCHANGED vars

\* get_tool_list: combined = []
GetToolListBegin ==
    /\ pc = "idle"
    /\ selected_files # <<>>
    /\ combined' = <<>>
    /\ reads' = <<>>
    /\ pc' = "loop"
    /\ UNCHANGED <<selected_files, output>>
    /\ UNCHANGED OtherThanBatch

\* a variant in which a failed read ends the batch
ReadFail_abort ==
    /\ pc = "loop"
    /\ Len(reads) < Len(selected_files)
    /\ LET path == selected_files[Len(reads) + 1]
       IN  \E e \in ErrorPool :
               /\ combined' = Append(combined, ErrorBlock(path, e))
               /\ reads' = Append(reads, [path |-> path, ok |-> FALSE, val |-> e])
               /\ output' = Join(combined', <<"\n", "\n">>)
    /\ pc' = "shown"
    /\ UNCHANGED selected_files
    /\ UNCHANGED OtherThanBatch

\* one iteration of the loop in which open() or read() raises
ReadFail ==
    /\ pc = "loop"
    /\ Len(reads) < Len(selected_files)
    /\ LET path == selected_files[Len(reads) + 1]
       IN  \E e \in ErrorPool :
               /\ combined' = Append(combined, ErrorBlock(path, e))
               /\ reads' = Append(reads, [path |-> path, ok |-> FALSE, val |-> e])
    /\ UNCHANGED <<pc, selected_files, output>>
    /\ UNCHANGED OtherThanBatch

\* one iteration of the loop in which the file is read
ReadOk ==
    /\ pc = "loop"
    /\ Len(reads) < Len(selected_files)
    /\ LET path == selected_files[Len(reads) + 1]
       IN  \E t \in {FileText(path)} :
               LET block == format_tool_list(extract_program_name(t), extract_tools(t))
               IN  /\ combined' = Append(combined,
                                         ReportBlock(path, block, Len(selected_files)))
                   /\ reads' = Append(reads, [path |-> path, ok |-> TRUE, val |-> t])
    /\ UNCHANGED <<pc, selected_files, output>>
    /\ UNCHANGED OtherThanBatch

\* after the loop: the output box is cleared and given "\n\n".join(combined)
Display ==
    /\ pc = "loop"
    /\ Len(reads) = Len(selected_files)
    /\ output' = Join(combined, <<"\n", "\n">>)
    /\ pc' = "shown"
    /\ UNCHANGED <<selected_files, reads, combined>>
    /\ UNCHANGED OtherThanBatch

\* get_tool_list returns to the event loop
BackToIdle ==
    /\ pc = "shown"
    /\ pc' = "idle"
    /\ UNCHANGED <<selected_files, reads, combined, output>>
    /\ UNCHANGED OtherThanBatch

NextBatch ==
    \/ SelectFiles
    \/ GetToolListEmpty
    \/ GetToolListBegin
    \/ ReadFail
    \/ ReadOk
    \/ Display
    \/ BackToIdle

SpecBatch == InitBatch /\ [][NextBatch]_vars

\* s occurs in b
Contains(b, s) == \E i \in 0..(Len(b) - Len(s)) : SubSeq(b, i + 1, i + Len(s)) = s

StartsWith(b, s) == Len(s) <= Len(b) /\ SubSeq(b, 1, Len(s)) = s

ReportOf(t) == format_tool_list(extract_program_name(t), extract_tools(t))

\* C9: the blocks are one per file, in selection order: for a file that failed
\* to read an error block naming that file and the error, for a file that was read
\* its report, also after an earlier file has failed; when the loop is over there
\* is a block for every selected file and the output is the blocks joined.
C9_OneBlockPerFile ==
    /\ pc \in {"loop", "shown"} =>
           /\ Len(combined) = Len(reads)
           /\ Len(reads) <= Len(selected_files)
           /\ \A i \in 1..Len(reads) :
                  /\ reads[i].path = selected_files[i]
                  /\ reads[i].ok =>
                         /\ Contains(combined[i], ReportOf(reads[i].val))
                         /\ ~Contains(combined[i], S_error)
                  /\ ~reads[i].ok =>
                         /\ Contains(combined[i], basename(selected_files[i]))
                         /\ Contains(combined[i], S_error \o reads[i].val)
    /\ pc = "shown" =>
           /\ Len(combined) = Len(selected_files)
           /\ output = Join(combined, <<"\n", "\n">>)

\* two files, the first failed to read, the second was read, and the output shown
C9_Witness ==
    /\ pc = "shown"
    /\ Len(selected_files) = 2
    /\ ~reads[1].ok
    /\ reads[2].ok
    /\ Contains(output, ReportOf(reads[2].val))

HasHeader(i) == StartsWith(combined[i], FileHeader(selected_files[i]))

\* C10, as claimed: a file's block begins with the bracketed filename header if
\* and only if more than one file is selected, whether or not the file was read.
C10_HeaderAsClaimed ==
    pc = "shown" =>
        \A i \in 1..Len(combined) : HasHeader(i) <=> Len(selected_files) > 1

\* C10, amended: the block of a file that was read begins with the header if and
\* only if more than one file is selected; the block of a file that failed to
\* read always begins with it, so the output of a single-file run begins with the
\* header exactly when the read failed.
C10_Header ==
    pc = "shown" =>
        /\ \A i \in 1..Len(combined) :
               HasHeader(i) <=> (Len(selected_files) > 1 \/ ~reads[i].ok)
        /\ Len(selected_files) = 1 =>
               (StartsWith(output, FileHeader(selected_files[1])) <=> ~reads[1].ok)

\* a single-file run whose read failed, and one whose read succeeded, differ in
\* the header; this is the failed one
C10_Witness ==
    /\ pc = "shown"
    /\ Len(selected_files) = 1
    /\ ~reads[1].ok
    /\ StartsWith(output, FileHeader(selected_files[1]))

====
